---- MODULE Spec2Model ----
(***************************************************************************)
(* State-machine model of solarlog_cli: the Client (login handshake,       *)
(* request execution, response classification, endpoint fetchers) and the  *)
(* SolarLogConnector (poll sequence, device set, derived metrics).         *)
(*                                                                         *)
(* An operation is a coroutine; it is modelled as one action per segment   *)
(* of code between two awaits of a request.  The call action runs the code *)
(* up to the first request, and every reply action takes the reply the     *)
(* device gives to the request in flight and runs the code up to the next  *)
(* request or to the return / raise of the operation.                      *)
(***************************************************************************)
EXTENDS Integers, Sequences, FiniteSets, TLC

VARIABLES
    password,        \* Client.password
    cookie,          \* the "SolarLog" cookie of Client.session.cookie_jar (0: none)
    hashed_pwd,      \* Client._hashed_pwd
    session,         \* Client.session
    close_session,   \* Client._close_session
    extended_data,   \* SolarLogConnector.extended_data
    device_list,     \* SolarLogConnector._device_list
    pc,              \* position of the running coroutine ("idle": none running)
    op,              \* the operation running, or the last one that ran
    args,            \* the argument op was called with (<<>>: none)
    snapshot,        \* the inverter data of a snapshot the caller kept
    sent,            \* requests posted by op, in order
    replies,         \* replies received by op, in order
    result,          \* how op ended: [kind, val]
    pre,             \* client and connector state when op was called
    data,            \* local SolarlogData of update_data / the snapshot returned
    hashed_password, \* local hashed_password of Client.login
    divisions        \* denominators of the divisions update_data performed

vars == <<password, cookie, hashed_pwd, session, close_session, extended_data,
          device_list, pc, op, args, snapshot, sent, replies, result, pre, data,
          hashed_password, divisions>>

clientVars == <<password, cookie, hashed_pwd>>
connVars == <<extended_data, device_list>>

(***************************************************************************)
(* Bounds of the model.                                                    *)
(***************************************************************************)
MaxTok == 2        \* session tokens a reply can carry: 1..MaxTok
MaxHashDepth == 1  \* login() is called while the password was hashed at most this often
MaxDev == 1        \* device ids 0..MaxDev

(***************************************************************************)
(* Program constants.                                                      *)
(***************************************************************************)
HTTP_OK == 200
SentinelYear == 1999

Tokens == 1..MaxTok
DevIds == 0..MaxDev

(***************************************************************************)
(* Passwords.  The stored password is the configured text hashed with the  *)
(* salts of the successful hashed logins so far (none: the plain text).    *)
(***************************************************************************)
Pwd(text, salts) == [text |-> text, salts |-> salts]

EmptyPwd == Pwd("", <<>>)

Passwords == {"", "pwd"}

QueryImpossibleSalt == "QUERY IMPOSSIBLE 000"

ValidSalts == {"$2a$10$salt"}

\* What the "104" entry of a salt reply can be; <<>> is an entry that is missing.
ValidSaltPayloads == {<<s>> : s \in ValidSalts}

SaltPayloads == {<<>>, <<QueryImpossibleSalt>>, <<"ACCESS DENIED">>} \cup ValidSaltPayloads

\* bcrypt.hashpw(password, salt): the hash for a well-formed salt; any other
\* salt raises ValueError.
HashRaises(salt) == salt \notin ValidSalts

hashpw(p, salt) == Pwd(p.text, Append(p.salts, salt))

(***************************************************************************)
(* Requests and replies.                                                   *)
(***************************************************************************)
Req(path, q, id, p) == [path |-> path, q |-> q, id |-> id, p |-> p]

LoginReq(p) == Req("login", "u=user&p=", -1, p)

QueryReq(q) == Req("getjp", q, -1, EmptyPwd)

NameReq(id) == Req("getjp", "141", id, EmptyPwd)

\* A reply: a timeout of the request, or a response with a status, a body and
\* cookies.  marks are the literals the body contains ("UW": FAILED - User was
\* wrong, "PW": FAILED - Password was wrong, "QI": {"QUERY IMPOSSIBLE 000"},
\* "AD": ACCESS DENIED, "550": the body starts with {"550":{ ), json is whether
\* the body is a JSON document, payload is what the document holds.
Resp(status, marks, json, tok, payload) ==
    [timeout |-> FALSE, status |-> status, marks |-> marks, json |-> json,
     cookie |-> tok, payload |-> payload]

TimeoutReply ==
    [timeout |-> TRUE, status |-> 0, marks |-> {}, json |-> FALSE,
     cookie |-> 0, payload |-> <<>>]

LoginReplies ==
    {TimeoutReply}
        \cup {Resp(400, m, FALSE, 0, <<>>) : m \in {{}, {"PW"}}}
        \cup {Resp(HTTP_OK, m, FALSE, t, <<>>) :
                m \in SUBSET {"UW", "PW"}, t \in {0} \cup Tokens}

SaltReplies ==
    {TimeoutReply, Resp(400, {}, FALSE, 0, <<>>), Resp(HTTP_OK, {}, FALSE, 0, <<>>),
     Resp(HTTP_OK, {"QI"}, FALSE, 0, <<>>)}
        \cup {Resp(HTTP_OK, {"550"}, TRUE, t, s) : t \in {0, 1}, s \in SaltPayloads}

(***************************************************************************)
(* Results of an operation.                                                *)
(***************************************************************************)
ConnectionError == "SolarLogConnectionError"
AuthenticationError == "SolarLogAuthenticationError"
UpdateError == "SolarLogUpdateError"

NoResult == [kind |-> "none", val |-> ""]

Return(v) == [kind |-> "return", val |-> v]

Raise(e) == [kind |-> "raise", val |-> e]

\* A float that is a quotient is kept exact, as <<numerator, denominator>>;
\* an optional float is <<>> when it is None.
Div(n, d) == <<n, d>>

Times(q, k) == <<q[1] * k, q[2]>>

\* SolarlogData(...) as get_basic_data builds it from document doc: the fields
\* the calculated values read, and the defaults of the dataclass.
SolarlogData(doc) ==
    [year |-> doc.year, power_ac |-> doc.power_ac, power_dc |-> doc.power_dc,
     consumption_ac |-> doc.consumption_ac, total_power |-> doc.total_power,
     alternator_loss |-> 0, capacity |-> <<>>, efficiency |-> <<>>,
     power_available |-> 0, usage |-> <<>>,
     battery_data |-> <<>>, inverter_data |-> "default_factory",
     production_year |-> <<>>, self_consumption_year |-> <<>>]

BasicDoc(year, ac, dc, cons, total) ==
    [year |-> year, power_ac |-> ac, power_dc |-> dc, consumption_ac |-> cons,
     total_power |-> total]

NoData == SolarlogData(BasicDoc(0, 0, 0, 0, 0))

Pre == [password |-> password, cookie |-> cookie, hashed_pwd |-> hashed_pwd,
        extended_data |-> extended_data, device_list |-> device_list]

(***************************************************************************)
(* Sessions (aiohttp.ClientSession objects) and the device set.            *)
(***************************************************************************)
Session(origin, closed) == [origin |-> origin, closed |-> closed]

NoSession == Session("none", FALSE)

\* InverterData(name, enabled, current_power, consumption_year); an optional
\* float is <<>> (None) or <<v>>.
InverterData(name, enabled, current_power, consumption_year) ==
    [present |-> TRUE, name |-> name, enabled |-> enabled,
     current_power |-> current_power, consumption_year |-> consumption_year]

\* The entry of an id that is no key of the dict.
Absent ==
    [present |-> FALSE, name |-> "", enabled |-> FALSE,
     current_power |-> <<>>, consumption_year |-> <<>>]

EmptyDeviceList == [k \in DevIds |-> Absent]

\* No snapshot kept: inverter_data is the dict the field of a snapshot is
\* ("default_factory": its own empty dict, "self._device_list": the dict of the
\* connector), seen is what that dict held when the snapshot was returned.
NoSnapshot == [kept |-> FALSE, inverter_data |-> "default_factory", seen |-> EmptyDeviceList]

(***************************************************************************)
(* Client.execute_http_request and Client.parse_http_response              *)
(***************************************************************************)
\* The session the request is posted on: one is created when there is none.
SessionForRequest ==
    IF session = NoSession THEN Session("lazy", FALSE) ELSE session

\* What execute_http_request does with the reply: "ok" returns the response.
ExecOutcome(r) ==
    IF r.timeout THEN ConnectionError
    ELSE IF r.status # HTTP_OK THEN UpdateError
    ELSE "ok"

\* Mutant of ParseOutcome: ACCESS DENIED is looked for first.
ParseOutcome_DeniedFirst(r) ==
    IF "AD" \in r.marks /\ "550" \notin r.marks THEN AuthenticationError
    ELSE IF "QI" \in r.marks THEN UpdateError
    ELSE IF ~r.json THEN UpdateError
    ELSE "ok"

\* What parse_http_response does with a response: "ok" returns the document.
ParseOutcome(r) ==
    IF "QI" \in r.marks THEN UpdateError
    ELSE IF "AD" \in r.marks /\ "550" \notin r.marks THEN AuthenticationError
    ELSE IF ~r.json THEN UpdateError
    ELSE "ok"

\* parse_http_response(await execute_http_request(...))
Classify(r) == IF ExecOutcome(r) # "ok" THEN ExecOutcome(r) ELSE ParseOutcome(r)

\* Post a request after those of base and await its reply at position p; a
\* closed session posts nothing (see CallOnClosedSession).
Post(base, req, p) ==
    /\ ~session.closed
    /\ sent' = Append(base, req)
    /\ session' = SessionForRequest
    /\ close_session' = (IF session = NoSession THEN TRUE ELSE close_session)
    /\ pc' = p

\* The reply r to the request in flight arrives.
Receive(r) == replies' = Append(replies, r)

\* Operation o is called with argument a.
BeginWith(o, a) ==
    /\ pc = "idle"
    /\ op' = o
    /\ args' = a
    /\ UNCHANGED snapshot
    /\ pre' = Pre
    /\ replies' = <<>>
    /\ data' = NoData
    /\ hashed_password' = EmptyPwd
    /\ divisions' = <<>>

\* Operation o, which takes no argument, is called.
Begin(o) ==
    /\ pc = "idle"
    /\ op' = o
    /\ args' = <<>>
    /\ UNCHANGED snapshot
    /\ pre' = Pre
    /\ replies' = <<>>
    /\ data' = NoData
    /\ hashed_password' = EmptyPwd
    /\ divisions' = <<>>

\* The running operation ends with res, having posted nothing more.
Finish(res) ==
    /\ pc' = "idle"
    /\ result' = res
    /\ UNCHANGED <<session, close_session>>

Bool(b) == IF b THEN "True" ELSE "False"

(***************************************************************************)
(* Client.login, also as called by                                         *)
(* SolarLogConnector.test_extended_data_available                          *)
(***************************************************************************)
ProbeOp == "test_extended_data_available"

\* Mutant of ContainsUserWrong: the password check is made first.
ContainsUserWrong_AfterPwd(r) == "UW" \in r.marks /\ "PW" \notin r.marks

ContainsUserWrong(r) == "UW" \in r.marks

ContainsPwdWrong(r) == "PW" \in r.marks

\* r_dict.get('550', {}).get('104'): <<>> is None
SaltOf(r) == r.payload

SaltUsable(salt) == salt # <<QueryImpossibleSalt>> /\ salt # <<>>

\* login returns b to operation o; the probe stores it as the extended flag.
LoginReturns(o, b) ==
    /\ Finish(Return(Bool(b)))
    /\ extended_data' = (IF o = ProbeOp THEN b ELSE extended_data)

\* login raises e; the probe lets it through (an AuthenticationError as a
\* new AuthenticationError).
LoginRaises(e) ==
    /\ Finish(Raise(e))
    /\ UNCHANGED extended_data

\* Mutant of LoginStart: the empty password is not checked.
LoginStart_NoEmptyCheck(o, base) ==
    /\ Post(base, LoginReq(password), "login_plain")
    /\ result' = NoResult
    /\ UNCHANGED <<extended_data, password, cookie, hashed_pwd>>

\* The start of login, after the requests of base.
LoginStart(o, base) ==
    /\ IF password = EmptyPwd
       THEN /\ LoginReturns(o, FALSE)
            /\ sent' = base
       ELSE /\ Post(base, LoginReq(password), "login_plain")
            /\ result' = NoResult
            /\ UNCHANGED extended_data
    /\ UNCHANGED <<password, cookie, hashed_pwd>>

\* Mutant of StoreCookie: the cookie jar is not updated.
StoreCookie_JarUntouched(r) ==
    /\ IF r.cookie = 0
       THEN LoginRaises("KeyError")
       ELSE LoginReturns(op, TRUE)
    /\ UNCHANGED <<cookie, sent>>

\* The end of login: the cookie of response r goes to the cookie jar.
StoreCookie(r) ==
    /\ IF r.cookie = 0
       THEN LoginRaises("KeyError") /\ UNCHANGED cookie
       ELSE LoginReturns(op, TRUE) /\ cookie' = r.cookie
    /\ UNCHANGED sent

login ==
    /\ Len(password.salts) <= MaxHashDepth
    /\ Begin("login")
    /\ LoginStart("login", <<>>)
    /\ UNCHANGED device_list

LoginPlainReply ==
    /\ pc = "login_plain"
    /\ \E r \in LoginReplies :
        /\ Receive(r)
        /\ IF ExecOutcome(r) # "ok"
           THEN /\ LoginRaises(ExecOutcome(r))
                /\ UNCHANGED <<password, cookie, hashed_pwd, sent>>
           ELSE IF ContainsUserWrong(r)
           THEN /\ password' = EmptyPwd
                /\ LoginReturns(op, FALSE)
                /\ UNCHANGED <<cookie, hashed_pwd, sent>>
           ELSE IF ContainsPwdWrong(r)
           THEN /\ Post(sent, QueryReq("550"), "login_salt")
                /\ UNCHANGED <<password, cookie, hashed_pwd, result, extended_data>>
           ELSE /\ StoreCookie(r)
                /\ UNCHANGED <<password, hashed_pwd>>
    /\ UNCHANGED <<op, args, snapshot, pre, data, hashed_password, divisions, device_list>>

LoginSaltReply ==
    /\ pc = "login_salt"
    /\ \E r \in SaltReplies :
        /\ Receive(r)
        /\ IF ExecOutcome(r) # "ok"
           THEN /\ LoginRaises(ExecOutcome(r))
                /\ UNCHANGED <<password, cookie, hashed_pwd, sent, hashed_password>>
           ELSE IF ~r.json
           THEN /\ LoginRaises("JSONDecodeError")
                /\ UNCHANGED <<password, cookie, hashed_pwd, sent, hashed_password>>
           ELSE IF SaltUsable(SaltOf(r))
           THEN IF HashRaises(SaltOf(r)[1])
                THEN /\ LoginRaises(AuthenticationError)
                     /\ UNCHANGED <<password, cookie, hashed_pwd, sent, hashed_password>>
                ELSE /\ hashed_password' = hashpw(password, SaltOf(r)[1])
                     /\ Post(sent, LoginReq(hashed_password'), "login_hashed")
                     /\ UNCHANGED <<password, cookie, hashed_pwd, result, extended_data>>
           ELSE /\ hashed_pwd' = TRUE
                /\ StoreCookie(r)
                /\ UNCHANGED <<password, hashed_password>>
    /\ UNCHANGED <<op, args, snapshot, pre, data, divisions, device_list>>

\* Mutant of HashedLoginRejected: the text of the retry's reply is not looked at.
HashedLoginRejected_StatusOnly(r) == ExecOutcome(r) # "ok"

\* The try block around the hashed retry: any exception of the request, and a
\* reply that still reports the password wrong, raise AuthenticationError.
HashedLoginRejected(r) == ExecOutcome(r) # "ok" \/ ContainsPwdWrong(r)

LoginHashedReply ==
    /\ pc = "login_hashed"
    /\ \E r \in LoginReplies :
        /\ Receive(r)
        /\ IF HashedLoginRejected(r)
           THEN /\ LoginRaises(AuthenticationError)
                /\ UNCHANGED <<password, cookie, hashed_pwd, sent>>
           ELSE /\ password' = hashed_password
                /\ hashed_pwd' = TRUE
                /\ StoreCookie(r)
    /\ UNCHANGED <<op, args, snapshot, pre, data, hashed_password, divisions, device_list>>

(***************************************************************************)
(* Client.test_connection                                                  *)
(***************************************************************************)
ConnReplies ==
    {TimeoutReply, Resp(400, {}, FALSE, 0, <<>>), Resp(HTTP_OK, {}, TRUE, 0, <<>>)}

test_connection ==
    /\ Begin("test_connection")
    /\ Post(<<>>, QueryReq("801"), "conn")
    /\ result' = NoResult
    /\ UNCHANGED <<clientVars, connVars>>

TestConnectionReply ==
    /\ pc = "conn"
    /\ \E r \in ConnReplies :
        /\ Receive(r)
        /\ IF r.timeout
           THEN Finish(Raise("TimeoutError"))
           ELSE Finish(Return(Bool(r.status = HTTP_OK)))
    /\ UNCHANGED <<clientVars, connVars, op, args, snapshot, sent, pre, data,
                   hashed_password, divisions>>

(***************************************************************************)
(* SolarLogConnector.test_extended_data_available                          *)
(***************************************************************************)
\* Replies to a data query, by what the classification tells apart; doc is
\* the payload of a reply that classifies as a document.
QueryReplies(docs) ==
    {TimeoutReply, Resp(400, {}, FALSE, 0, <<>>), Resp(400, {"AD"}, TRUE, 0, <<>>),
     Resp(HTTP_OK, {}, FALSE, 0, <<>>), Resp(HTTP_OK, {"QI"}, FALSE, 0, <<>>),
     Resp(HTTP_OK, {"QI", "AD"}, FALSE, 0, <<>>),
     Resp(HTTP_OK, {"AD"}, TRUE, 0, <<>>)}
        \cup {Resp(HTTP_OK, {}, TRUE, 0, d) : d \in docs}

ProbeReplies == QueryReplies({<<>>})

test_extended_data_available ==
    /\ Len(password.salts) <= MaxHashDepth
    /\ Begin(ProbeOp)
    /\ Post(<<>>, QueryReq("740"), "probe")
    /\ result' = NoResult
    /\ UNCHANGED <<clientVars, connVars>>

ProbeReply ==
    /\ pc = "probe"
    /\ \E r \in ProbeReplies :
        /\ Receive(r)
        /\ IF Classify(r) \in {ConnectionError, UpdateError}
           THEN /\ Finish(Return("False"))
                /\ UNCHANGED <<clientVars, extended_data, sent>>
           ELSE IF Classify(r) = AuthenticationError
           THEN LoginStart(op, sent)
           ELSE /\ extended_data' = TRUE
                /\ Finish(Return("True"))
                /\ UNCHANGED <<clientVars, sent>>
    /\ UNCHANGED <<op, args, snapshot, pre, data, hashed_password, divisions, device_list>>

(***************************************************************************)
(* The handshake: Client.__init__ and the operations of the session        *)
(* manager.                                                                *)
(***************************************************************************)
InitClient ==
    /\ password \in {Pwd(t, <<>>) : t \in Passwords}
    /\ cookie = 0
    /\ hashed_pwd = FALSE
    /\ session \in {Session("created", FALSE), Session("supplied", FALSE)}
    /\ close_session = TRUE

InitCall ==
    /\ pc = "idle"
    /\ op = "none"
    /\ args = <<>>
    /\ snapshot = NoSnapshot
    /\ sent = <<>>
    /\ replies = <<>>
    /\ result = NoResult
    /\ pre = Pre
    /\ data = NoData
    /\ hashed_password = EmptyPwd
    /\ divisions = <<>>

InitAuth ==
    /\ InitClient
    /\ extended_data = FALSE
    /\ device_list = EmptyDeviceList
    /\ InitCall

NextAuth ==
    \/ login
    \/ LoginPlainReply
    \/ LoginSaltReply
    \/ LoginHashedReply
    \/ test_connection
    \/ TestConnectionReply
    \/ test_extended_data_available
    \/ ProbeReply

SpecAuth == InitAuth /\ [][NextAuth]_vars

(***************************************************************************)
(* SolarlogData and the calculated values of update_data                   *)
(***************************************************************************)
EfficiencyGuard(d) == d.power_dc # 0

\* Mutant of UsageGuard: the guard tests the other power.
UsageGuard_Dc(d) == d.power_dc # 0

UsageGuard(d) == d.power_ac # 0

CapacityGuard(d) == d.total_power # 0

\* The denominators of the divisions the calculation performs on d, in order.
Denominators(d) ==
    (IF EfficiencyGuard(d) THEN <<d.power_dc>> ELSE <<>>)
        \o (IF UsageGuard(d) THEN <<d.power_ac>> ELSE <<>>)
        \o (IF CapacityGuard(d) THEN <<d.total_power>> ELSE <<>>)

\* d with its calculated values set.
Calculated(d) ==
    [d EXCEPT
        !.alternator_loss = d.power_dc - d.power_ac,
        !.efficiency =
            IF EfficiencyGuard(d) THEN Times(Div(d.power_ac, d.power_dc), 100) ELSE @,
        !.usage =
            IF UsageGuard(d) THEN Times(Div(d.consumption_ac, d.power_ac), 100)
            ELSE <<0, 1>>,
        !.power_available =
            IF UsageGuard(d) THEN d.power_ac - d.consumption_ac ELSE 0,
        !.capacity =
            IF CapacityGuard(d) THEN Times(Div(d.power_dc, d.total_power), 100) ELSE @]

\* The end of update_data on d: a division by zero raises, else d is returned.
ReturnData(d) ==
    /\ divisions' = Denominators(d)
    /\ IF \E i \in 1..Len(Denominators(d)) : Denominators(d)[i] = 0
       THEN data' = d /\ Finish(Raise("ZeroDivisionError"))
       ELSE data' = Calculated(d) /\ Finish(Return("SolarlogData"))
    /\ UNCHANGED sent

(***************************************************************************)
(* Endpoint fetchers of the poll                                           *)
(***************************************************************************)
\* Mutant of RestartSentinel: the year is compared with another year.
RestartSentinel_OtherYear(doc) == doc.year = SentinelYear + 1

\* data.last_updated.year == 1999
RestartSentinel(doc) == doc.year = SentinelYear

\* get_power_per_inverter: the entries of the document that are not "0"
\* (a value v stands for the string the device sends; 0 for "0").
PowerPerInverter(doc) == [k \in {i \in DOMAIN doc : doc[i] # 0} |-> doc[k]]

\* list.index(item): the first position of item, counted from 0.
Index(list, item) ==
    (CHOOSE i \in 1..Len(list) :
        list[i] = item /\ \A j \in 1..(i - 1) : list[j] # item) - 1

\* get_energy_per_inverter on data_list = raw_data["854"][-1][-1]
EnergyPerInverter(list) ==
    [k \in {Index(list, list[i]) : i \in {j \in 1..Len(list) : list[j] # 0}}
        |-> list[k + 1]]

\* Mutant of Enabled: the enabled flag is not looked at.
Enabled_Always(dl, key) == key \in DOMAIN dl

\* self._device_list.get(key, InverterData).enabled
Enabled(dl, key) == key \in DOMAIN dl /\ dl[key].enabled

\* The two loops of update_inverter_data.
SetCurrentPower(dl, raw) ==
    [k \in DOMAIN dl |->
        IF k \in DOMAIN raw /\ Enabled(dl, k)
        THEN [dl[k] EXCEPT !.current_power = <<raw[k]>>]
        ELSE dl[k]]

SetConsumptionYear(dl, raw) ==
    [k \in DOMAIN dl |->
        IF k \in DOMAIN raw /\ Enabled(dl, k)
        THEN [dl[k] EXCEPT !.consumption_year = <<raw[k]>>]
        ELSE dl[k]]

\* self._device_list != {}
DeviceListNonEmpty == \E k \in DevIds : device_list[k].present

\* Mutant of BatteryData: voltage and level are taken from each other's place.
BatteryData_Swapped(raw) ==
    IF raw = <<>> THEN <<>>
    ELSE <<[voltage |-> raw[2], level |-> raw[1], charge_power |-> raw[3],
            discharge_power |-> raw[4]]>>

\* update_battery_data: None for an empty list, else BatteryData.
BatteryData(raw) ==
    IF raw = <<>> THEN <<>>
    ELSE <<[voltage |-> raw[1], level |-> raw[2], charge_power |-> raw[3],
            discharge_power |-> raw[4]]>>

(***************************************************************************)
(* SolarLogConnector.update_data                                           *)
(***************************************************************************)
pollFrame == <<clientVars, extended_data, op, args, snapshot, pre, hashed_password>>

\* Mutant of PollRaises: every failure of a fetch is raised as an UpdateError.
PollRaises_AsUpdateError(e) ==
    /\ Finish(Raise(UpdateError))
    /\ UNCHANGED <<sent, data, divisions, device_list>>

\* Mutant of PollRaises: the request of a failed fetch is sent again.
PollRaises_Retry(e) ==
    /\ Post(sent, sent[Len(sent)], pc)
    /\ UNCHANGED <<result, data, divisions, device_list>>

\* Mutant of PollRaises: a fetch that failed with an AuthenticationError makes
\* update_data log in again.
PollRaises_Relogin(e) ==
    IF e = AuthenticationError
    THEN /\ Post(sent, LoginReq(password), "login_plain")
         /\ UNCHANGED <<result, data, divisions, device_list>>
    ELSE /\ Finish(Raise(e))
         /\ UNCHANGED <<sent, data, divisions, device_list>>

\* A fetch of the poll failed with e: update_data raises it.
PollRaises(e) ==
    /\ Finish(Raise(e))
    /\ UNCHANGED <<sent, data, divisions, device_list>>

update_data ==
    /\ Begin("update_data")
    /\ Post(<<>>, QueryReq("801"), "basic")
    /\ result' = NoResult
    /\ UNCHANGED <<clientVars, connVars>>

BasicReplyOf(rs) ==
    /\ pc = "basic"
    /\ \E r \in rs :
        /\ Receive(r)
        /\ IF Classify(r) # "ok"
           THEN PollRaises(Classify(r))
           ELSE IF RestartSentinel(r.payload[1])
           THEN PollRaises(UpdateError)
           ELSE IF extended_data
           THEN /\ data' = SolarlogData(r.payload[1])
                /\ Post(sent, QueryReq("878"), "energy")
                /\ UNCHANGED <<result, divisions, device_list>>
           ELSE /\ ReturnData(SolarlogData(r.payload[1]))
                /\ UNCHANGED device_list
    /\ UNCHANGED pollFrame

\* get_energy: the yearly totals, unless the entry is "QUERY IMPOSSIBLE 000" (<<>>).
EnergyReplyOf(rs) ==
    /\ pc = "energy"
    /\ \E r \in rs :
        /\ Receive(r)
        /\ IF Classify(r) # "ok"
           THEN PollRaises(Classify(r))
           ELSE /\ data' = IF r.payload = <<>> THEN data
                           ELSE [data EXCEPT !.production_year = <<r.payload[1]>>,
                                             !.self_consumption_year = <<r.payload[2]>>]
                /\ IF DeviceListNonEmpty
                   THEN Post(sent, QueryReq("782"), "power")
                   ELSE Post(sent, QueryReq("858"), "battery")
                /\ UNCHANGED <<result, divisions, device_list>>
    /\ UNCHANGED pollFrame

PowerReplyOf(rs) ==
    /\ pc = "power"
    /\ \E r \in rs :
        /\ Receive(r)
        /\ IF Classify(r) # "ok"
           THEN PollRaises(Classify(r))
           ELSE /\ device_list' = SetCurrentPower(device_list, PowerPerInverter(r.payload[1]))
                /\ Post(sent, QueryReq("854"), "inverter_energy")
                /\ UNCHANGED <<result, divisions, data>>
    /\ UNCHANGED pollFrame

InverterEnergyReplyOf(rs) ==
    /\ pc = "inverter_energy"
    /\ \E r \in rs :
        /\ Receive(r)
        /\ IF Classify(r) # "ok"
           THEN PollRaises(Classify(r))
           ELSE /\ device_list' = SetConsumptionYear(device_list, EnergyPerInverter(r.payload))
                /\ data' = [data EXCEPT !.inverter_data = "self._device_list"]
                /\ Post(sent, QueryReq("858"), "battery")
                /\ UNCHANGED <<result, divisions>>
    /\ UNCHANGED pollFrame

BatteryReplyOf(rs) ==
    /\ pc = "battery"
    /\ \E r \in rs :
        /\ Receive(r)
        /\ IF Classify(r) # "ok"
           THEN PollRaises(Classify(r))
           ELSE /\ ReturnData([data EXCEPT !.battery_data = BatteryData(r.payload)])
                /\ UNCHANGED device_list
    /\ UNCHANGED pollFrame

(***************************************************************************)
(* The poll: SolarLogConnector.__init__ and update_data, with the replies  *)
(* the device gives to each query of the poll.                             *)
(***************************************************************************)
Years == {SentinelYear, 2024}

BasicDocs ==
    {<<BasicDoc(y, ac, dc, cons, total)>> :
        y \in Years, ac \in {0, 2}, dc \in {0, 3}, cons \in {0, 1}, total \in {0, 6}}

EnergyDocs == {<<>>, <<7, 5>>}

PollPowerDocs == {<<[k \in DevIds |-> 0]>>, <<[k \in DevIds |-> k + 1]>>}

\* Arrays of yearly energy: no entry, a different value per inverter, the
\* same value for every inverter.
PollInverterEnergyDocs ==
    {[i \in 1..(MaxDev + 1) |-> 0], [i \in 1..(MaxDev + 1) |-> i],
     [i \in 1..(MaxDev + 1) |-> 1]}

BatteryDocs == {<<>>, <<1, 2, 3, 4>>}

\* The device_enabled argument of the constructor: <<>> for None.
PollDeviceArgs ==
    {<<>>, [k \in DevIds |-> TRUE], [k \in DevIds |-> k = 0], [k \in {0} |-> TRUE]}

\* SolarLogConnector.__init__: one InverterData(enabled=value) per key.
NewDeviceList(device_enabled) ==
    [k \in DevIds |->
        IF k \in DOMAIN device_enabled
        THEN InverterData("", device_enabled[k], <<>>, <<>>)
        ELSE Absent]

PollBasicReplies == QueryReplies(BasicDocs)

PollBasicReply == BasicReplyOf(PollBasicReplies)

PollEnergyReplies == QueryReplies(EnergyDocs)

PollEnergyReply == EnergyReplyOf(PollEnergyReplies)

PollPowerReplies == QueryReplies(PollPowerDocs)

PollPowerReply == PowerReplyOf(PollPowerReplies)

PollInverterEnergyReplies == QueryReplies(PollInverterEnergyDocs)

PollInverterEnergyReply == InverterEnergyReplyOf(PollInverterEnergyReplies)

PollBatteryReplies == QueryReplies(BatteryDocs)

PollBatteryReply == BatteryReplyOf(PollBatteryReplies)

InitPoll ==
    /\ InitClient
    /\ extended_data \in BOOLEAN
    /\ device_list \in {NewDeviceList(a) : a \in PollDeviceArgs}
    /\ InitCall

NextPoll ==
    \/ update_data
    \/ PollBasicReply
    \/ PollEnergyReply
    \/ PollPowerReply
    \/ PollInverterEnergyReply
    \/ PollBatteryReply

SpecPoll == InitPoll /\ [][NextPoll]_vars

(***************************************************************************)
(* Client.get_device_list and SolarLogConnector.update_device_list,        *)
(* set_enabled_devices                                                     *)
(***************************************************************************)
\* The ids of directory dir (raw_data["740"]) whose value is not "Err", as the
\* loop of get_device_list meets them; a directory lists its ids in ascending
\* order.
RECURSIVE SortedSeq(_)
SortedSeq(S) ==
    IF S = {} THEN <<>>
    ELSE LET m == CHOOSE x \in S : \A y \in S : x <= y
         IN <<m>> \o SortedSeq(S \ {m})

NonErrorIds(dir) == SortedSeq({k \in DOMAIN dir : dir[k] # "Err"})

\* The local device_list of get_device_list after the names in names were
\* fetched for the first ids of ids.
FetchedDevices(ids, names) ==
    [k \in {ids[i] : i \in 1..Len(names)} |->
        names[CHOOSE i \in 1..Len(names) : ids[i] = k]]

\* Mutant of device: the record of a known id is not looked up.
device_AlwaysDefault(dl, device_id) == InverterData("", FALSE, <<>>, <<>>)

\* SolarLogConnector.device: the record of an id, a default InverterData()
\* for an id that is no key.
device(dl, device_id) ==
    IF dl[device_id].present THEN dl[device_id]
    ELSE InverterData("", FALSE, <<>>, <<>>)

\* The dict comprehension of update_device_list over the fetched devices.
RebuildDeviceList(dl, devices) ==
    [k \in DevIds |->
        IF k \in DOMAIN devices
        THEN InverterData(devices[k], device(dl, k).enabled, <<>>, <<>>)
        ELSE Absent]

\* Mutant of NotExtended: the refresh does not look at the mode.
NotExtended_Never == FALSE

\* if not self.extended_data
NotExtended == ~extended_data

deviceFrame == <<clientVars, extended_data, op, args, snapshot, pre, data, hashed_password,
                 divisions>>

update_device_list ==
    /\ Begin("update_device_list")
    /\ IF NotExtended
       THEN /\ Finish(Return("{}"))
            /\ sent' = <<>>
       ELSE /\ Post(<<>>, QueryReq("740"), "device_list")
            /\ result' = NoResult
    /\ UNCHANGED <<clientVars, connVars>>

\* get_device_list raised e: update_device_list raises it.
DeviceListRaises(e) ==
    /\ Finish(Raise(e))
    /\ UNCHANGED <<sent, device_list>>

\* get_device_list returned devices: the device set is rebuilt and returned.
DeviceListReturns(devices) ==
    /\ device_list' = RebuildDeviceList(device_list, devices)
    /\ Finish(Return("self._device_list"))
    /\ UNCHANGED sent

DirectoryReplyOf(rs) ==
    /\ pc = "device_list"
    /\ \E r \in rs :
        /\ Receive(r)
        /\ IF Classify(r) # "ok"
           THEN DeviceListRaises(Classify(r))
           ELSE IF NonErrorIds(r.payload[1]) = <<>>
           THEN DeviceListReturns(<<>>)
           ELSE /\ Post(sent, NameReq(NonErrorIds(r.payload[1])[1]), "device_name")
                /\ UNCHANGED <<result, device_list>>
    /\ UNCHANGED deviceFrame

DeviceNameReplyOf(rs) ==
    /\ pc = "device_name"
    /\ \E r \in rs :
        /\ Receive(r)
        /\ IF Classify(r) # "ok"
           THEN DeviceListRaises(Classify(r))
           ELSE LET ids == NonErrorIds(replies[1].payload[1])
                    names == [i \in 1..Len(replies) |-> replies'[i + 1].payload[1]]
                IN IF Len(names) < Len(ids)
                   THEN /\ Post(sent, NameReq(ids[Len(names) + 1]), "device_name")
                        /\ UNCHANGED <<result, device_list>>
                   ELSE DeviceListReturns(FetchedDevices(ids, names))
    /\ UNCHANGED deviceFrame

\* Mutant of SetEnabledDevices: the record of every id of the argument is
\* made anew.
SetEnabledDevices_Replace(dl, device_enabled) ==
    [k \in DevIds |->
        IF k \notin DOMAIN device_enabled THEN dl[k]
        ELSE InverterData("", device_enabled[k], <<>>, <<>>)]

\* The loop of set_enabled_devices over device_enabled.
SetEnabledDevices(dl, device_enabled) ==
    [k \in DevIds |->
        IF k \notin DOMAIN device_enabled THEN dl[k]
        ELSE IF ~dl[k].present
             THEN InverterData("", device_enabled[k], <<>>, <<>>)
             ELSE [dl[k] EXCEPT !.enabled = device_enabled[k]]]

\* The device_enabled arguments: a flag for each id of a set of ids.
EnabledArgs == UNION {[S -> BOOLEAN] : S \in SUBSET DevIds}

set_enabled_devices ==
    /\ \E device_enabled \in EnabledArgs :
        /\ BeginWith("set_enabled_devices", device_enabled)
        /\ device_list' = SetEnabledDevices(device_list, device_enabled)
    /\ sent' = <<>>
    /\ Finish(Return("None"))
    /\ UNCHANGED <<clientVars, extended_data>>

(***************************************************************************)
(* The device set: a connector whose device set was filled by the          *)
(* constructor, by refreshes and by polls, and the operations on it.       *)
(***************************************************************************)
Names == {"Inverter A", "Inverter B"}

DirectoryDocs == {<<d>> : d \in UNION {[S -> {"Err", "Inverter"}] : S \in SUBSET DevIds}}

NameDocs == {<<n>> : n \in Names}

DirectoryReplies == QueryReplies(DirectoryDocs)

DirectoryReply == DirectoryReplyOf(DirectoryReplies)

DeviceNameReplies == QueryReplies(NameDocs)

DeviceNameReply == DeviceNameReplyOf(DeviceNameReplies)

\* Records of a device set: as the constructor makes them, and as a refresh
\* followed by a poll leaves them.
DeviceRecords ==
    {Absent, InverterData("", TRUE, <<>>, <<>>), InverterData("", FALSE, <<>>, <<>>),
     InverterData("Inverter A", TRUE, <<5>>, <<9>>)}

\* SolarLogConnector(host, extended_data, tz, device_enabled, "pwd") and the
\* operations on its device set so far.
InitDevices ==
    /\ password = Pwd("pwd", <<>>)
    /\ cookie = 0
    /\ hashed_pwd = FALSE
    /\ session = Session("created", FALSE)
    /\ close_session = TRUE
    /\ extended_data \in BOOLEAN
    /\ device_list \in [DevIds -> DeviceRecords]
    /\ InitCall

NextDevices ==
    \/ update_device_list
    \/ DirectoryReply
    \/ DeviceNameReply
    \/ set_enabled_devices

SpecDevices == InitDevices /\ [][NextDevices]_vars

(***************************************************************************)
(* Client.close and the life of the session                                *)
(***************************************************************************)
\* Mutant of ClosesSession: a session the caller supplied is left open.
ClosesSession_OwnedOnly ==
    session # NoSession /\ close_session /\ session.origin # "supplied"

\* if self.session and self._close_session
ClosesSession == session # NoSession /\ close_session

close ==
    /\ Begin("close")
    /\ session' = IF ClosesSession THEN [session EXCEPT !.closed = TRUE] ELSE session
    /\ sent' = <<>>
    /\ pc' = "idle"
    /\ result' = Return("None")
    /\ UNCHANGED <<close_session, clientVars, connVars>>

\* The caller unsets the session of the client (client.session = None).
unset_session ==
    /\ Begin("session = None")
    /\ session' = NoSession
    /\ sent' = <<>>
    /\ pc' = "idle"
    /\ result' = NoResult
    /\ UNCHANGED <<close_session, clientVars, connVars>>

\* The operations that start with a request, whatever the password.
RequestOps == {"test_connection", "update_data"}

\* A request on a closed session: session.post raises RuntimeError, which
\* neither test_connection nor execute_http_request catches.
CallOnClosedSession ==
    /\ session.closed
    /\ \E o \in RequestOps : Begin(o)
    /\ sent' = <<>>
    /\ Finish(Raise("RuntimeError"))
    /\ UNCHANGED <<clientVars, connVars>>

SessionBasicReplies ==
    QueryReplies({<<BasicDoc(y, ac, 3, 1, 6)>> : y \in Years, ac \in {0, 2}})

SessionBasicReply == BasicReplyOf(SessionBasicReplies)

\* Client(host, session, password) with a session of either origin, in a
\* connector without extended data.
InitSession ==
    /\ InitClient
    /\ extended_data = FALSE
    /\ device_list = EmptyDeviceList
    /\ InitCall

NextSession ==
    \/ close
    \/ unset_session
    \/ test_connection
    \/ TestConnectionReply
    \/ update_data
    \/ SessionBasicReply
    \/ CallOnClosedSession

SpecSession == InitSession /\ [][NextSession]_vars

(***************************************************************************)
(* The classification of replies: a data query as every fetcher makes it,  *)
(* parse_http_response(await execute_http_request(body)), and the salt     *)
(* query of login, which is not classified.                                *)
(***************************************************************************)
DataQueries == {"801", "878", "782", "854", "858", "740"}

\* Replies by status and by what the body holds; a body holding the literal
\* {"QUERY IMPOSSIBLE 000"} is no JSON document.
ClassifyReplies ==
    {TimeoutReply}
        \cup {r \in {Resp(st, m, j, 0, <<>>) :
                        st \in {HTTP_OK, 400}, m \in SUBSET {"QI", "AD", "550"},
                        j \in BOOLEAN} :
                 "QI" \in r.marks => ~r.json}

fetch ==
    /\ Begin("fetch")
    /\ \E q \in DataQueries : Post(<<>>, QueryReq(q), "fetch")
    /\ result' = NoResult
    /\ UNCHANGED <<clientVars, connVars>>

FetchReply ==
    /\ pc = "fetch"
    /\ \E r \in ClassifyReplies :
        /\ Receive(r)
        /\ IF Classify(r) # "ok"
           THEN Finish(Raise(Classify(r)))
           ELSE Finish(Return("json_response"))
    /\ UNCHANGED <<clientVars, connVars, op, args, snapshot, sent, pre, data,
                   hashed_password, divisions>>

NextClassify ==
    \/ fetch
    \/ FetchReply
    \/ login
    \/ LoginPlainReply
    \/ LoginSaltReply
    \/ LoginHashedReply

SpecClassify == InitAuth /\ [][NextClassify]_vars

(***************************************************************************)
(* Client.get_power_per_inverter and Client.get_energy_per_inverter,       *)
(* called on their own: the mapping each returns for a response.           *)
(***************************************************************************)
fetcherFrame == <<clientVars, connVars, op, args, snapshot, sent, pre, data, hashed_password,
                  divisions>>

get_power_per_inverter ==
    /\ Begin("get_power_per_inverter")
    /\ Post(<<>>, QueryReq("782"), "power_fetch")
    /\ result' = NoResult
    /\ UNCHANGED <<clientVars, connVars>>

PowerFetchReplyOf(rs) ==
    /\ pc = "power_fetch"
    /\ \E r \in rs :
        /\ Receive(r)
        /\ IF Classify(r) # "ok"
           THEN Finish(Raise(Classify(r)))
           ELSE Finish(Return(PowerPerInverter(r.payload[1])))
    /\ UNCHANGED fetcherFrame

get_energy_per_inverter ==
    /\ Begin("get_energy_per_inverter")
    /\ Post(<<>>, QueryReq("854"), "energy_fetch")
    /\ result' = NoResult
    /\ UNCHANGED <<clientVars, connVars>>

EnergyFetchReplyOf(rs) ==
    /\ pc = "energy_fetch"
    /\ \E r \in rs :
        /\ Receive(r)
        /\ IF Classify(r) # "ok"
           THEN Finish(Raise(Classify(r)))
           ELSE Finish(Return(EnergyPerInverter(r.payload)))
    /\ UNCHANGED fetcherFrame

\* The values an inverter can report: 0 for none.
FetchValues == {0, 1, 2}

FetchPowerDocs == {<<d>> : d \in [DevIds -> FetchValues]}

FetchPowerReplies == QueryReplies(FetchPowerDocs)

PowerFetchReply == PowerFetchReplyOf(FetchPowerReplies)

\* Every array with an entry per inverter, arrays with equal entries included.
FetchEnergyDocs == [1..(MaxDev + 1) -> FetchValues]

FetchEnergyReplies == QueryReplies(FetchEnergyDocs)

EnergyFetchReply == EnergyFetchReplyOf(FetchEnergyReplies)

NextFetchers ==
    \/ get_power_per_inverter
    \/ PowerFetchReply
    \/ get_energy_per_inverter
    \/ EnergyFetchReply

SpecFetchers == InitAuth /\ [][NextFetchers]_vars

(***************************************************************************)
(* The connector as a whole: login, the probe, polls and refreshes of the  *)
(* device list on one connector, against a device that denies access,      *)
(* times out or answers.                                                   *)
(***************************************************************************)
\* Replies to a data query of a device that may have dropped the login.
ConnectorReplies(docs) ==
    {TimeoutReply, Resp(HTTP_OK, {"AD"}, TRUE, 0, <<>>)}
        \cup {Resp(HTTP_OK, {}, TRUE, 0, d) : d \in docs}

ConnectorBasicReplies == ConnectorReplies({<<BasicDoc(2024, 2, 3, 1, 6)>>})

ConnectorBasicReply == BasicReplyOf(ConnectorBasicReplies)

ConnectorEnergyReplies == ConnectorReplies({<<7, 5>>})

ConnectorEnergyReply == EnergyReplyOf(ConnectorEnergyReplies)

ConnectorPowerReplies == ConnectorReplies({<<[k \in DevIds |-> k + 1]>>})

ConnectorPowerReply == PowerReplyOf(ConnectorPowerReplies)

ConnectorInverterEnergyReplies == ConnectorReplies({[i \in 1..(MaxDev + 1) |-> i]})

ConnectorInverterEnergyReply == InverterEnergyReplyOf(ConnectorInverterEnergyReplies)

ConnectorBatteryReplies == ConnectorReplies({<<>>})

ConnectorBatteryReply == BatteryReplyOf(ConnectorBatteryReplies)

ConnectorDirectoryReplies == ConnectorReplies({<<[i \in DevIds |-> "Inverter"]>>})

ConnectorDirectoryReply == DirectoryReplyOf(ConnectorDirectoryReplies)

ConnectorNameReplies == ConnectorReplies({<<"Inverter A">>})

ConnectorNameReply == DeviceNameReplyOf(ConnectorNameReplies)

\* SolarLogConnector(host, extended_data, tz, device_enabled, "pwd")
InitConnector ==
    /\ password = Pwd("pwd", <<>>)
    /\ cookie = 0
    /\ hashed_pwd = FALSE
    /\ session = Session("created", FALSE)
    /\ close_session = TRUE
    /\ extended_data \in BOOLEAN
    /\ device_list \in {NewDeviceList(a) : a \in PollDeviceArgs}
    /\ InitCall

NextConnector ==
    \/ login
    \/ LoginPlainReply
    \/ LoginSaltReply
    \/ LoginHashedReply
    \/ test_extended_data_available
    \/ ProbeReply
    \/ update_data
    \/ ConnectorBasicReply
    \/ ConnectorEnergyReply
    \/ ConnectorPowerReply
    \/ ConnectorInverterEnergyReply
    \/ ConnectorBatteryReply
    \/ update_device_list
    \/ ConnectorDirectoryReply
    \/ ConnectorNameReply

SpecConnector == InitConnector /\ [][NextConnector]_vars

(***************************************************************************)
(* Snapshots kept by the caller: the inverter_data of a SolarlogData that  *)
(* update_data returned, while the connector is polled and its devices are *)
(* enabled and disabled (no refresh of the device list, which rebinds      *)
(* self._device_list).                                                     *)
(***************************************************************************)
\* What the dict that is the inverter_data of a snapshot holds now: the
\* snapshot's own dict stays empty, the dict of the connector is the device
\* set, which update_inverter_data and set_enabled_devices change in place.
InverterDataOf(dict) ==
    IF dict = "self._device_list" THEN device_list ELSE EmptyDeviceList

\* The caller keeps the snapshot update_data has just returned.
keep_snapshot ==
    /\ pc = "idle" /\ op = "update_data" /\ result = Return("SolarlogData")
    /\ snapshot' = [kept |-> TRUE, inverter_data |-> data.inverter_data,
                    seen |-> InverterDataOf(data.inverter_data)]
    /\ UNCHANGED <<clientVars, connVars, session, close_session, pc, op, args, sent,
                   replies, result, pre, data, hashed_password, divisions>>

NextSnapshot ==
    \/ update_data
    \/ ConnectorBasicReply
    \/ ConnectorEnergyReply
    \/ ConnectorPowerReply
    \/ ConnectorInverterEnergyReply
    \/ ConnectorBatteryReply
    \/ set_enabled_devices
    \/ keep_snapshot

SpecSnapshot == InitConnector /\ [][NextSnapshot]_vars

(***************************************************************************)
(* Properties of the login handshake (checked under SpecAuth)              *)
(***************************************************************************)
\* login() ran in the operation: called directly, or by the probe after its
\* request was classified access-denied.
LoginCalled ==
    \/ op = "login"
    \/ op = ProbeOp /\ Len(replies) >= 1 /\ Classify(replies[1]) = AuthenticationError

\* The requests and replies of login() within the operation.
LoginOffset == IF op = ProbeOp THEN 1 ELSE 0

LoginSent == SubSeq(sent, LoginOffset + 1, Len(sent))

LoginRcvd == SubSeq(replies, LoginOffset + 1, Len(replies))

\* A response execute_http_request hands to login: received, with status 200.
IsResponse(r) == ~r.timeout /\ r.status = HTTP_OK

\* C1: hashed-fallback success.  When login() is called with a non-empty
\* password, the plain login is answered "FAILED - Password was wrong", the
\* salt query returns a valid salt and the hashed login is answered by a login
\* response (status 200, setting the SolarLog cookie) that does not contain
\* "FAILED - Password was wrong", then exactly plain login, salt query, hashed
\* login were sent in this order, login() returned true, the stored password
\* is the hash of the previous one with that salt, and the cookie jar holds
\* the cookie of the second login reply.
C1_HashedFallbackSuccess ==
    (/\ LoginCalled
     /\ pre.password # EmptyPwd
     /\ Len(LoginRcvd) >= 3
     /\ ContainsPwdWrong(LoginRcvd[1])
     /\ SaltOf(LoginRcvd[2]) \in ValidSaltPayloads
     /\ IsResponse(LoginRcvd[3])
     /\ ~ContainsPwdWrong(LoginRcvd[3])
     /\ LoginRcvd[3].cookie # 0)
    => (/\ pc = "idle"
        /\ LoginSent = <<LoginReq(pre.password), QueryReq("550"),
                         LoginReq(hashpw(pre.password, SaltOf(LoginRcvd[2])[1]))>>
        /\ result = Return("True")
        /\ password = hashpw(pre.password, SaltOf(LoginRcvd[2])[1])
        /\ password # pre.password
        /\ cookie = LoginRcvd[3].cookie)

C1_Witness ==
    /\ pc = "idle" /\ op = "login"
    /\ Len(replies) = 3
    /\ ContainsPwdWrong(replies[1])
    /\ ~ContainsPwdWrong(replies[3])
    /\ result = Return("True")
    /\ pre.password = Pwd("pwd", <<>>)
    /\ password = Pwd("pwd", <<"$2a$10$salt">>)
    /\ replies[1].cookie = 1 /\ cookie = 2

\* C2: hashed retry rejected.  When the plain login reply and the hashed login
\* reply both contain "FAILED - Password was wrong", login() raises
\* AuthenticationError, the cookie jar is as before the call and the stored
\* password is the one before the call.
C2_HashedRetryRejected ==
    (/\ LoginCalled
     /\ Len(LoginRcvd) >= 3
     /\ ContainsPwdWrong(LoginRcvd[1])
     /\ ContainsPwdWrong(LoginRcvd[3]))
    => (/\ pc = "idle"
        /\ result = Raise(AuthenticationError)
        /\ cookie = pre.cookie
        /\ password = pre.password)

C2_Witness ==
    /\ pc = "idle" /\ op = "login"
    /\ Len(replies) = 3
    /\ IsResponse(replies[1]) /\ ContainsPwdWrong(replies[1])
    /\ IsResponse(replies[3]) /\ ContainsPwdWrong(replies[3])
    /\ replies[3].cookie # 0
    /\ result = Raise(AuthenticationError)
    /\ password = Pwd("pwd", <<>>)

\* C3: login() raises AuthenticationError only when the credentials are proven
\* wrong: the plain login was answered "FAILED - Password was wrong" and then
\* either the hashed login was answered so too or the salt query offered no
\* usable salt; no timeout and no non-200 reply of the handshake is reported
\* as AuthenticationError.
C3_AuthErrorOnlyWhenProvenWrong ==
    (pc = "idle" /\ LoginCalled /\ result = Raise(AuthenticationError))
    => (/\ \A i \in 1..Len(LoginRcvd) : IsResponse(LoginRcvd[i])
        /\ Len(LoginRcvd) >= 2
        /\ ContainsPwdWrong(LoginRcvd[1])
        /\ \/ Len(LoginRcvd) = 3 /\ ContainsPwdWrong(LoginRcvd[3])
           \/ Len(LoginRcvd) = 2 /\ SaltOf(LoginRcvd[2]) \notin ValidSaltPayloads)

\* C4: salt challenge unusable.  When the plain login reply contains "FAILED -
\* Password was wrong" and the salt of the salt reply is the query-impossible
\* sentinel or absent, login() raises AuthenticationError and no hashed login
\* is sent.
C4_UnusableSaltRaisesAuthError ==
    (/\ LoginCalled
     /\ Len(LoginRcvd) >= 2
     /\ ContainsPwdWrong(LoginRcvd[1])
     /\ IsResponse(LoginRcvd[2]) /\ LoginRcvd[2].json
     /\ SaltOf(LoginRcvd[2]) \in {<<>>, <<QueryImpossibleSalt>>})
    => (/\ pc = "idle"
        /\ result = Raise(AuthenticationError)
        /\ Len(LoginSent) = 2)

\* C5: no-password device.  When the login reply contains "FAILED - User was
\* wrong", login() returns false, the stored password is empty, only the one
\* login request was sent (no salt query, no second login) and the cookie jar
\* is as before the call.
C5_UserWrongClearsPassword ==
    (/\ LoginCalled
     /\ Len(LoginRcvd) >= 1
     /\ IsResponse(LoginRcvd[1])
     /\ "UW" \in LoginRcvd[1].marks)
    => (/\ pc = "idle"
        /\ result = Return("False")
        /\ password = EmptyPwd
        /\ LoginSent = <<LoginReq(pre.password)>>
        /\ cookie = pre.cookie)

C5_Witness ==
    /\ pc = "idle" /\ op = "login"
    /\ Len(replies) = 1
    /\ replies[1] = Resp(HTTP_OK, {"UW", "PW"}, FALSE, 1, <<>>)
    /\ pre.password = Pwd("pwd", <<>>)
    /\ password = EmptyPwd
    /\ result = Return("False")
    /\ sent = <<LoginReq(Pwd("pwd", <<>>))>>

\* C6: NoPassword is a no-op and absorbing.  While the stored password is
\* empty no step changes the stored password or the cookie jar, and a call of
\* login() (direct, or by the probe) returns false in the same step without
\* posting a request.
C6_NoPasswordNoOp ==
    [][password = EmptyPwd =>
          /\ password' = EmptyPwd
          /\ cookie' = cookie
          /\ (pc = "idle" /\ op' = "login")
                => (pc' = "idle" /\ result' = Return("False") /\ sent' = <<>>)
          /\ (pc = "probe" /\ Classify(replies'[Len(replies')]) = AuthenticationError)
                => (pc' = "idle" /\ result' = Return("False") /\ sent' = sent)]_vars

\* login() on a password that an earlier "FAILED - User was wrong" cleared
\* (the cookie of a login before that is still in the jar).
C6_Witness ==
    /\ pc = "idle" /\ op = "login"
    /\ pre.password = EmptyPwd /\ password = EmptyPwd
    /\ pre.cookie # 0 /\ cookie = pre.cookie
    /\ sent = <<>>
    /\ result = Return("False")

\* C9: timeouts.  Every request that times out, in any operation, ends the
\* operation with ConnectionError (the probe request of
\* test_extended_data_available excepted, whose ConnectionError the probe
\* turns into its result false), and nothing is sent after it.
C9_TimeoutIsConnectionError ==
    \A i \in 1..Len(replies) :
        replies[i].timeout
        => (/\ pc = "idle"
            /\ i = Len(sent)
            /\ \/ result = Raise(ConnectionError)
               \/ op = ProbeOp /\ i = 1 /\ result = Return("False"))

(***************************************************************************)
(* Properties of the poll (checked under SpecPoll)                         *)
(***************************************************************************)
\* Reply i of the operation was classified as a failure.
Failed(i) == Classify(replies[i]) # "ok"

\* The basic-data document of the poll, once its reply classified as one.
BasicDocReceived == Len(replies) >= 1 /\ ~Failed(1)

\* C7: restart sentinel.  Whenever the basic-data timestamp of a poll has the
\* year 1999, update_data() has ended raising UpdateError, with the basic-data
\* request its only request, no snapshot and no calculated value, in extended
\* and in non-extended mode.
C7_RestartSentinel ==
    (op = "update_data" /\ BasicDocReceived
        /\ replies[1].payload[1].year = 1999)
    => (/\ pc = "idle"
        /\ result = Raise(UpdateError)
        /\ sent = <<QueryReq("801")>>
        /\ data = NoData
        /\ divisions = <<>>)

C7_Witness ==
    /\ pc = "idle" /\ op = "update_data"
    /\ extended_data /\ DeviceListNonEmpty
    /\ BasicDocReceived
    /\ replies[1].payload[1] = BasicDoc(1999, 2, 3, 1, 6)
    /\ result = Raise(UpdateError)
    /\ Len(sent) = 1

\* a / b * 100 = q, q an exact quotient
IsPercentOf(q, a, b) == Len(q) = 2 /\ q[2] # 0 /\ b # 0 /\ q[1] * b = a * 100 * q[2]

\* C8: calculated values.  Every snapshot update_data() returns has
\* alternator_loss = power_dc - power_ac; efficiency = power_ac/power_dc*100
\* if power_dc # 0, else absent; usage = consumption_ac/power_ac*100 and
\* power_available = power_ac - consumption_ac if power_ac # 0, else both 0;
\* capacity = power_dc/total_power*100 if total_power # 0, else absent; and
\* update_data() never divides by zero.
C8_CalculatedValues ==
    (op = "update_data")
    => (/\ \A i \in 1..Len(divisions) : divisions[i] # 0
        /\ result # Raise("ZeroDivisionError")
        /\ result = Return("SolarlogData")
            => LET doc == replies[1].payload[1] IN
               /\ data.power_ac = doc.power_ac /\ data.power_dc = doc.power_dc
               /\ data.alternator_loss = doc.power_dc - doc.power_ac
               /\ IF doc.power_dc # 0
                  THEN IsPercentOf(data.efficiency, doc.power_ac, doc.power_dc)
                  ELSE data.efficiency = <<>>
               /\ IF doc.power_ac # 0
                  THEN /\ IsPercentOf(data.usage, doc.consumption_ac, doc.power_ac)
                       /\ data.power_available = doc.power_ac - doc.consumption_ac
                  ELSE /\ Len(data.usage) = 2 /\ data.usage[1] = 0 /\ data.usage[2] # 0
                       /\ data.power_available = 0
               /\ IF doc.total_power # 0
                  THEN IsPercentOf(data.capacity, doc.power_dc, doc.total_power)
                  ELSE data.capacity = <<>>)

\* A snapshot with no AC power but DC power, in extended mode.
C8_Witness ==
    /\ pc = "idle" /\ op = "update_data"
    /\ result = Return("SolarlogData")
    /\ Len(replies) = 5
    /\ data.power_ac = 0 /\ data.power_dc = 3 /\ data.total_power = 6
    /\ data.usage = <<0, 1>> /\ data.power_available = 0
    /\ data.efficiency = <<0, 3>> /\ data.capacity = <<300, 6>>
    /\ divisions = <<3, 6>>

PollQueries == {"801", "878", "782", "854", "858"}

\* C10: abort with unchanged propagation.  If the reply to a request of
\* update_data() fails with ConnectionError, AuthenticationError or
\* UpdateError, update_data() has ended raising that error kind, the failed
\* request is the last one it sent and no snapshot is returned; and when
\* update_data() raises with no fetch having failed, it raises UpdateError for
\* a basic-data timestamp of the restart sentinel.
C10_AbortUnchanged ==
    (op = "update_data")
    => (/\ \A k \in 1..Len(replies) :
             Failed(k)
             => (/\ Classify(replies[k])
                      \in {ConnectionError, AuthenticationError, UpdateError}
                 /\ pc = "idle"
                 /\ result = Raise(Classify(replies[k]))
                 /\ k = Len(sent)
                 /\ sent[k].q \in PollQueries
                 /\ data.alternator_loss = 0 /\ divisions = <<>>)
        /\ (pc = "idle" /\ result.kind = "raise"
                /\ \A k \in 1..Len(replies) : ~Failed(k))
             => (/\ result = Raise(UpdateError)
                 /\ Len(replies) = 1
                 /\ replies[1].payload[1].year = SentinelYear))

\* The fourth request, per-inverter energy, times out.
C10_Witness ==
    /\ pc = "idle" /\ op = "update_data"
    /\ Len(replies) = 4 /\ Len(sent) = 4
    /\ sent[4] = QueryReq("854")
    /\ replies[4].timeout
    /\ result = Raise(ConnectionError)

(***************************************************************************)
(* Properties of the device set (checked under SpecDevices)                *)
(***************************************************************************)
\* update_device_list() was called in extended mode and returned.
RefreshReturned ==
    /\ op = "update_device_list" /\ pc = "idle"
    /\ pre.extended_data /\ result.kind = "return"

\* The directory the refresh fetched, and its ids that are not "Err".
Directory == replies[1].payload[1]

Listed(k) == k \in DOMAIN Directory /\ Directory[k] # "Err"

\* The enabled flag of id k before the operation: disabled if not known.
EnabledBefore(k) == pre.device_list[k].present /\ pre.device_list[k].enabled

\* C11: device-list refresh preserves enabled flags.  After update_device_list()
\* returned in extended mode, every id of the fetched directory that is not
\* "Err" has a record with the name fetched for it and with the enabled flag it
\* had before the refresh (disabled if the id was not known); so each refresh of
\* a row of refreshes with the same directory leaves the flags as they were.
C11_RefreshPreservesEnabled ==
    RefreshReturned
    => \A k \in DevIds :
         Listed(k)
         => (/\ device_list[k].present
             /\ \E i \in 1..Len(sent) :
                  sent[i] = NameReq(k) /\ device_list[k].name = replies[i].payload[1]
             /\ device_list[k].enabled = EnabledBefore(k))

\* A refresh of a device set that an earlier refresh made (only a refresh
\* gives the name "Inverter B"): device 0 is still enabled.
C11_Witness ==
    /\ RefreshReturned
    /\ Listed(0)
    /\ pre.device_list[0] = InverterData("Inverter B", TRUE, <<>>, <<>>)
    /\ device_list[0] = InverterData("Inverter A", TRUE, <<>>, <<>>)

\* C12: omitted ids are retained.  After update_device_list() returned in
\* extended mode, every id that was in the device set before and that the
\* fetched directory omits still has its record, with the name and the enabled
\* flag it had.
C12_OmittedIdsRetained ==
    RefreshReturned
    => \A k \in DevIds :
         (pre.device_list[k].present /\ k \notin DOMAIN Directory)
         => (/\ device_list[k].present
             /\ device_list[k].name = pre.device_list[k].name
             /\ device_list[k].enabled = pre.device_list[k].enabled)

\* C13: set_enabled_devices(m) merges.  After set_enabled_devices(m) every id
\* of m has the flag m[id]; one that was unknown has an empty name and no
\* values, one that was known keeps name, current power and yearly
\* consumption; every other id has its record (or its absence) unchanged; and
\* no request was sent.
C13_SetEnabledMerges ==
    (op = "set_enabled_devices")
    => (/\ pc = "idle" /\ result = Return("None")
        /\ sent = <<>> /\ replies = <<>>
        /\ \A k \in DevIds :
             IF k \in DOMAIN args
             THEN /\ device_list[k].present
                  /\ device_list[k].enabled = args[k]
                  /\ device_list[k].name =
                        (IF pre.device_list[k].present THEN pre.device_list[k].name ELSE "")
                  /\ device_list[k].current_power = pre.device_list[k].current_power
                  /\ device_list[k].consumption_year = pre.device_list[k].consumption_year
             ELSE device_list[k] = pre.device_list[k])

\* Device 0, known with name and values, is disabled and the unknown device 1
\* is enabled.
C13_Witness ==
    /\ op = "set_enabled_devices" /\ pc = "idle"
    /\ DOMAIN args = {0, 1} /\ ~args[0] /\ args[1]
    /\ pre.device_list[0] = InverterData("Inverter A", TRUE, <<5>>, <<9>>)
    /\ ~pre.device_list[1].present
    /\ device_list[0] = InverterData("Inverter A", FALSE, <<5>>, <<9>>)
    /\ device_list[1] = InverterData("", TRUE, <<>>, <<>>)

\* C18: update_device_list() in non-extended mode returns an empty mapping,
\* sends no request and leaves the device set unchanged.
C18_RefreshNotExtended ==
    (op = "update_device_list" /\ ~pre.extended_data)
    => (/\ pc = "idle"
        /\ result = Return("{}")
        /\ sent = <<>> /\ replies = <<>>
        /\ device_list = pre.device_list)

C18_Witness ==
    /\ op = "update_device_list" /\ pc = "idle"
    /\ ~pre.extended_data /\ ~extended_data
    /\ device_list[0] = InverterData("Inverter A", TRUE, <<5>>, <<9>>)
    /\ result = Return("{}")
    /\ sent = <<>>

(***************************************************************************)
(* Further properties of the poll (checked under SpecPoll)                 *)
(***************************************************************************)
\* The last request of the operation was the battery query and its reply
\* classified as a document.
BatteryFetched ==
    /\ Len(sent) >= 1 /\ Len(replies) = Len(sent)
    /\ sent[Len(sent)] = QueryReq("858")
    /\ ~Failed(Len(replies))

\* C14: battery data.  In extended mode a poll that returns a snapshot sent
\* the battery query as its last request, and a battery query is never
\* followed by another request; an empty battery payload gives a snapshot
\* without battery_data (and no error), a four-element payload a battery record
\* with voltage, level, charge power and discharge power elements 0, 1, 2, 3
\* of the payload; in non-extended mode no battery query is sent and the
\* snapshot has no battery_data.
C14_BatteryData ==
    (op = "update_data")
    => (/\ \A i \in 1..Len(sent) : sent[i] = QueryReq("858") => i = Len(sent)
        /\ (pc = "idle" /\ result.kind = "return" /\ pre.extended_data)
             => BatteryFetched
        /\ BatteryFetched
             => (/\ pre.extended_data
                 /\ pc = "idle" /\ result = Return("SolarlogData")
                 /\ LET raw == replies[Len(replies)].payload IN
                    IF raw = <<>> THEN data.battery_data = <<>>
                    ELSE /\ Len(raw) = 4 /\ Len(data.battery_data) = 1
                         /\ data.battery_data[1].voltage = raw[1]
                         /\ data.battery_data[1].level = raw[2]
                         /\ data.battery_data[1].charge_power = raw[3]
                         /\ data.battery_data[1].discharge_power = raw[4])
        /\ ~pre.extended_data
             => (/\ \A i \in 1..Len(sent) : sent[i] # QueryReq("858")
                 /\ data.battery_data = <<>>))

\* A poll in extended mode whose battery payload has four elements.
C14_Witness ==
    /\ op = "update_data" /\ pc = "idle"
    /\ BatteryFetched
    /\ replies[Len(replies)].payload = <<1, 2, 3, 4>>
    /\ data.battery_data =
         <<[voltage |-> 1, level |-> 2, charge_power |-> 3, discharge_power |-> 4]>>

\* The place of a query in the order of the poll.
PollOrder == <<"801", "878", "782", "854", "858">>

Rank(q) == CHOOSE i \in 1..Len(PollOrder) : PollOrder[i] = q

\* C20: strictly sequential poll.  Within one update_data() call the requests
\* are queries of the poll sent in the order basic data, yearly totals,
\* per-inverter power, per-inverter energy, battery (some of them skipped),
\* the first being the basic-data query; each query is sent at most once; at
\* most one request is without its reply, and none once the call has ended.
C20_SequentialPoll ==
    (op = "update_data")
    => (/\ \A i \in 1..Len(sent) :
             /\ sent[i].q \in {PollOrder[n] : n \in 1..Len(PollOrder)}
             /\ sent[i] = QueryReq(sent[i].q)
        /\ Len(sent) >= 1 /\ sent[1] = QueryReq("801")
        /\ \A i, j \in 1..Len(sent) : i < j => Rank(sent[i].q) < Rank(sent[j].q)
        /\ Len(replies) <= Len(sent) /\ Len(sent) <= Len(replies) + 1
        /\ (Len(sent) = Len(replies) + 1) <=> (pc # "idle"))

\* A poll that sent all five queries and returned.
C20_Witness ==
    /\ op = "update_data" /\ pc = "idle"
    /\ result = Return("SolarlogData")
    /\ sent = <<QueryReq("801"), QueryReq("878"), QueryReq("782"), QueryReq("854"),
                QueryReq("858")>>
    /\ Len(replies) = 5

(***************************************************************************)
(* Properties of the session (checked under SpecSession)                   *)
(***************************************************************************)
\* C15: session ownership.  After close(), a session the library created (at
\* construction or for a request) is closed and a session the caller supplied
\* is open: close() is a no-op on it.
C15_CloseOwnedOnly ==
    (op = "close" /\ pc = "idle")
    => (/\ session.origin \in {"created", "lazy"} => session.closed
        /\ session.origin = "supplied" => ~session.closed)

\* C16: close() closes the current session.  A step of close() on a client
\* that has a session leaves that session closed, whatever its origin; no other
\* step closes a session; and the session a request creates when the client
\* has none is open.
C16_CloseClosesCurrent ==
    [][/\ (pc = "idle" /\ op' = "close" /\ session # NoSession)
            => (session'.closed /\ session'.origin = session.origin)
       /\ (session'.closed /\ ~session.closed) => op' = "close"
       /\ (session = NoSession /\ session' # NoSession)
            => (session' = Session("lazy", FALSE) /\ op' \in RequestOps)]_vars

\* close() closed a session that a request had created after the first
\* session was unset.
C16_Witness ==
    /\ op = "close" /\ pc = "idle"
    /\ session = Session("lazy", TRUE)

(***************************************************************************)
(* The probe (checked under SpecAuth) and the classification (checked      *)
(* under SpecClassify)                                                     *)
(***************************************************************************)
\* C17: extended-data probe.  test_extended_data_available() never raises
\* ConnectionError or UpdateError; it returns false, after its one request,
\* when the probe request times out, has a non-200 status or is classified as
\* an update error; when the probe is classified access-denied the result of
\* login() is stored as the extended-mode flag and returned, and the only
\* error raised is an AuthenticationError of login(); when the probe succeeds
\* the flag is set and true is returned.
C17_ProbeContract ==
    (op = ProbeOp /\ pc = "idle")
    => (/\ result # Raise(ConnectionError)
        /\ result # Raise(UpdateError)
        /\ Classify(replies[1]) \in {ConnectionError, UpdateError}
             => (result = Return("False") /\ Len(sent) = 1)
        /\ Classify(replies[1]) = AuthenticationError
             => \/ result = Raise(AuthenticationError)
                \/ result.kind = "return" /\ result.val = Bool(extended_data)
        /\ Classify(replies[1]) = "ok"
             => (result = Return("True") /\ extended_data /\ Len(sent) = 1))

\* The reply to the salt query of login() is an impossible one: the literal
\* in the body, or the sentinel as the salt.
ImpossibleSaltReply(r) ==
    IsResponse(r) /\ ("QI" \in r.marks \/ r.payload = <<QueryImpossibleSalt>>)

\* C19: classification precedence.  A data query whose request did not time
\* out ends by the first of: status not 200 -> UpdateError; body holds the
\* query-impossible literal -> UpdateError; body holds "ACCESS DENIED" and does
\* not start as a salt response -> AuthenticationError; body is no JSON document
\* -> UpdateError; else the document is returned.  An impossible reply to the
\* salt query of login() is not raised as an UpdateError.
C19_ClassificationPrecedence ==
    /\ (op = "fetch" /\ Len(replies) = 1 /\ ~replies[1].timeout)
         => LET r == replies[1] IN
            /\ pc = "idle"
            /\ result =
                 IF r.status # 200 THEN Raise(UpdateError)
                 ELSE IF "QI" \in r.marks THEN Raise(UpdateError)
                 ELSE IF "AD" \in r.marks /\ "550" \notin r.marks
                      THEN Raise(AuthenticationError)
                 ELSE IF ~r.json THEN Raise(UpdateError)
                 ELSE Return("json_response")
    /\ (op = "login" /\ Len(replies) >= 2 /\ ImpossibleSaltReply(replies[2]))
         => (result # Raise(UpdateError) /\ Len(sent) = 2)

\* A 200 body holding both the query-impossible literal and "ACCESS DENIED".
C19_Witness ==
    /\ op = "fetch" /\ pc = "idle"
    /\ replies = <<Resp(200, {"QI", "AD"}, FALSE, 0, <<>>)>>
    /\ result = Raise(UpdateError)

(***************************************************************************)
(* Properties of the per-inverter step of the poll (checked under          *)
(* SpecPoll)                                                               *)
(***************************************************************************)
\* Query q was sent in the operation / its reply classified as a document.
Sent(q) == \E i \in 1..Len(sent) : sent[i] = QueryReq(q)

Answered(q) == \E i \in 1..Len(replies) : sent[i] = QueryReq(q) /\ ~Failed(i)

ReplyTo(q) == replies[CHOOSE i \in 1..Len(replies) : sent[i] = QueryReq(q)]

\* The device set was non-empty when the operation was called.
DeviceSetNonEmptyBefore == \E k \in DevIds : pre.device_list[k].present

\* C21: per-inverter fetch condition.  A poll that returned a snapshot sent
\* the per-inverter power query (782) and the per-inverter energy query (854)
\* if and only if the device set was non-empty, in extended and in
\* non-extended mode.
C21_PerInverterFetchCondition ==
    (op = "update_data" /\ pc = "idle" /\ result.kind = "return")
    => (/\ Sent("782") <=> DeviceSetNonEmptyBefore
        /\ Sent("854") <=> DeviceSetNonEmptyBefore)

\* C22: enabled filter.  During update_data() the record of an id that is
\* unknown or disabled is not changed and no record is created; and once the
\* energy reply arrived, an enabled device for which the power response
\* carries no value ("0") and the energy response carries one has that value
\* as its yearly consumption.
C22_EnabledFilter ==
    (op = "update_data")
    => (/\ \A k \in DevIds :
             ~EnabledBefore(k) => device_list[k] = pre.device_list[k]
        /\ (Answered("782") /\ Answered("854"))
             => \A k \in DevIds :
                  (/\ EnabledBefore(k)
                   /\ ReplyTo("782").payload[1][k] = 0
                   /\ ReplyTo("854").payload[k + 1] # 0)
                  => device_list[k].consumption_year = <<ReplyTo("854").payload[k + 1]>>)

\* C23: per-inverter values are refreshed every poll.  After a poll that
\* returned a snapshot and fetched per-inverter data, the current power of
\* every enabled device is the value this poll's power response carries for it,
\* or absent when the response carries none ("0").
C23_ValuesRefreshed ==
    (op = "update_data" /\ pc = "idle" /\ result.kind = "return" /\ Answered("782"))
    => \A k \in DevIds :
         EnabledBefore(k)
         => device_list[k].current_power =
               (IF ReplyTo("782").payload[1][k] # 0
                THEN <<ReplyTo("782").payload[1][k]>> ELSE <<>>)

\* C26: update_data() leaves the caller-controlled device state alone.  At
\* every point of a call of update_data(), ended or not, returned or raised,
\* the device set has the ids it had at the call, every device its enabled flag
\* and its name, and every device that is not enabled its whole record.
C26_PollKeepsDeviceState ==
    (op = "update_data")
    => \A k \in DevIds :
         /\ device_list[k].present = pre.device_list[k].present
         /\ device_list[k].enabled = pre.device_list[k].enabled
         /\ device_list[k].name = pre.device_list[k].name
         /\ ~EnabledBefore(k) => device_list[k] = pre.device_list[k]

\* A poll that changed the values of the enabled device 0, beside the
\* disabled device 1 for which values were reported too.
C26_Witness ==
    /\ op = "update_data" /\ pc = "idle" /\ result.kind = "return"
    /\ Answered("782") /\ Answered("854")
    /\ ReplyTo("782").payload[1][1] # 0
    /\ pre.device_list[0] = InverterData("", TRUE, <<>>, <<>>)
    /\ device_list[0] = InverterData("", TRUE, <<1>>, <<1>>)
    /\ device_list[1] = InverterData("", FALSE, <<>>, <<>>)

(***************************************************************************)
(* Properties of the per-inverter fetchers (checked under SpecFetchers)    *)
(***************************************************************************)
\* C25: per-inverter yearly energy mapping.  For every array the per-inverter
\* energy query returns, the mapping get_energy_per_inverter returns has as
\* keys exactly the indices (from 0) whose entry is not zero, each with its
\* entry as value, also when entries of the array are equal.
C25_EnergyMapping ==
    (op = "get_energy_per_inverter" /\ pc = "idle" /\ result.kind = "return")
    => LET array == replies[1].payload IN
       /\ DOMAIN result.val = {i \in 0..(Len(array) - 1) : array[i + 1] # 0}
       /\ \A i \in DOMAIN result.val : result.val[i] = array[i + 1]

(***************************************************************************)
(* Properties of kept snapshots (checked under SpecSnapshot)               *)
(***************************************************************************)
\* C27: snapshots are independent of later polls.  The inverter data of a
\* snapshot the caller kept holds, at every later moment, what it held when
\* update_data() returned the snapshot.
C27_SnapshotIndependent ==
    snapshot.kept => InverterDataOf(snapshot.inverter_data) = snapshot.seen

(***************************************************************************)
(* Properties of the connector as a whole (checked under SpecConnector)    *)
(***************************************************************************)
\* A request of the handshake: to the login path, or the salt query.
IsLoginRequest(req) == req.path = "login" \/ req.q = "550"

\* C24: authentication only when triggered.  A request to the login path or
\* the salt query is sent only inside login(), or inside
\* test_extended_data_available() after its probe (the first request of the
\* call) was classified access-denied; update_data() and update_device_list()
\* send none, whatever their fetches fail with.
C24_LoginOnlyWhenTriggered ==
    \A i \in 1..Len(sent) :
        IsLoginRequest(sent[i]) =>
            /\ op \notin {"update_data", "update_device_list"}
            /\ \/ op = "login"
               \/ /\ op = ProbeOp
                  /\ i > 1
                  /\ Len(replies) >= 1
                  /\ Classify(replies[1]) = AuthenticationError

\* A poll ended with the AuthenticationError of a fetch made after the basic
\* data, on a connector that had logged in, and sent no request of the
\* handshake.
C24_Witness ==
    /\ op = "update_data"
    /\ pc = "idle"
    /\ result = Raise(AuthenticationError)
    /\ cookie # 0
    /\ Len(sent) > 1
    /\ \A i \in 1..Len(sent) : ~IsLoginRequest(sent[i])

====
